---------------------------- MODULE Spec2Model ----------------------------
(***************************************************************************)
(* The course-recommendation route handler (POST) of rootedu-frontend:     *)
(* candidate load from Redis, vector scoring with per-candidate embedding  *)
(* calls, the keyword fallback, the passthrough, the top-5 cut and the     *)
(* completion call.                                                        *)
(*                                                                         *)
(* Strings are sequences of one-character strings.  A similarity is kept   *)
(* exactly, as the pair (dot, nn) standing for dot / sqrt(nn).             *)
(***************************************************************************)
EXTENDS Integers, Sequences, FiniteSets

\* ------------------------------------------------------------------ bounds

\* Longest message the request may carry.
MaxMsgLen == 3

\* Most slugs the Redis set 'influencers' may hold.
MaxSlugs == 7

\* ------------------------------------------------------- program constants

\* relevantInfluencers.slice(0, 5)
K == 5

\* The floor 0.1 of validSimilarity, as FloorNum / FloorDen.
FloorNum == 1

FloorDen == 10

\* ----------------------------------------------------------------- strings

\* The characters a message is made of.
MsgChars == {"a", "B", " "}

\* One character of String.prototype.toLowerCase.
LowerChar(c) ==
    CASE c = "A" -> "a"
      [] c = "B" -> "b"
      [] c = "C" -> "c"
      [] OTHER -> c

toLowerCase(s) == [i \in 1..Len(s) |-> LowerChar(s[i])]

\* String.prototype.includes: term occurs in text as a contiguous run.
includes(text, term) ==
    \E i \in 0..(Len(text) - Len(term)) :
        SubSeq(text, i + 1, i + Len(term)) = term

\* Array.prototype.join(' ') over strings; an undefined field counts as ''.
RECURSIVE join(_)
join(parts) ==
    IF Len(parts) = 0 THEN <<>>
    ELSE IF Len(parts) = 1 THEN parts[1]
    ELSE parts[1] \o <<" ">> \o join(Tail(parts))

\* String.prototype.split(' '): cuts at every single space, keeping the
\* empty strings between, before and after spaces.
RECURSIVE split(_)
split(s) ==
    IF \A i \in 1..Len(s) : s[i] # " " THEN <<s>>
    ELSE LET p == CHOOSE i \in 1..Len(s) :
                      s[i] = " " /\ \A j \in 1..(i - 1) : s[j] # " "
         IN  <<SubSeq(s, 1, p - 1)>> \o split(SubSeq(s, p + 1, Len(s)))

\* All strings over MsgChars of length 1..MaxMsgLen.
RECURSIVE StringsOfLen(_)
StringsOfLen(n) ==
    IF n = 0 THEN {<<>>}
    ELSE {Append(s, c) : s \in StringsOfLen(n - 1), c \in MsgChars}

MsgStrings == UNION {StringsOfLen(n) : n \in 1..MaxMsgLen}

\* The value of the request's message field: a string, a non-string truthy
\* value (a number), or nothing.
StringMessage(s) == [kind |-> "string", text |-> s]

NumberMessage == [kind |-> "number", text |-> <<>>]

NoMessage == [kind |-> "absent", text |-> <<>>]

Messages == {StringMessage(s) : s \in MsgStrings} \cup {NumberMessage, NoMessage}

\* ------------------------------------------------------ embedding values

\* A value inside an embedding: a number, an array of values, or a value
\* whose product with anything is NaN (undefined, a non-numeric string).
Num(x) == [array |-> FALSE, num |-> TRUE, n |-> x, items |-> <<>>]

NonNumeric == [array |-> FALSE, num |-> FALSE, n |-> 0, items |-> <<>>]

Arr(items) == [array |-> TRUE, num |-> FALSE, n |-> 0, items |-> items]

Nums(xs) == [i \in 1..Len(xs) |-> Num(xs[i])]

\* What embeddingFunction.generate returns: a flat array of values, or an
\* array holding that array.
Flat(v) == Arr(v)

Nested(v) == Arr(<<Arr(v)>>)

\* The slot of a call of the fan-out that has not returned yet.
Pending == [array |-> FALSE, num |-> FALSE, n |-> -1, items |-> <<>>]

\* ------------------------------------------------------------- the store

\* What Redis and the embedding provider hold for a slug: the hash
\* influencer:<slug> (data.Instagram and data.username both feed username)
\* and the embedding the provider returns for the record's text.
Kinds ==
    << [name |-> <<"a">>, username |-> <<>>, bio |-> <<>>,
        description |-> <<>>, tags |-> <<>>,
        emb |-> Flat(Nums(<<1, 0>>))],
       [name |-> <<"c">>, username |-> <<"b">>, bio |-> <<>>,
        description |-> <<>>, tags |-> << <<"a">> >>,
        emb |-> Nested(Nums(<<0, 1>>))],
       [name |-> <<>>, username |-> <<"a">>, bio |-> <<"a">>,
        description |-> <<>>, tags |-> << <<"a">> >>,
        emb |-> Flat(Nums(<<1, 0>>))],
       [name |-> <<"a">>, username |-> <<"b">>, bio |-> <<>>,
        description |-> <<>>, tags |-> <<>>,
        emb |-> Flat(Nums(<<1, 1>>))],
       [name |-> <<"C">>, username |-> <<>>, bio |-> <<"B">>,
        description |-> <<>>, tags |-> << <<"c", "B">> >>,
        emb |-> Flat(<<Num(1), NonNumeric>>)],
       [name |-> <<"c">>, username |-> <<>>, bio |-> <<>>,
        description |-> <<"a", "b">>, tags |-> << <<"c">>, <<"B">> >>,
        emb |-> Flat(Nums(<<0, 0>>))],
       [name |-> <<"c">>, username |-> <<>>, bio |-> <<>>,
        description |-> <<"c", " ", "c">>, tags |-> <<>>,
        emb |-> Flat(Nums(<<2, 0, 5>>))] >>

KindOf(slug) == Kinds[((slug - 1) % Len(Kinds)) + 1]

\* redis.hGetAll(`influencer:${slug}`)
hGetAll(slug) == KindOf(slug)

\* The influencer object built from the hash (lines 57-67).
Influencer(slug, data) ==
    [id |-> slug, name |-> data.name, username |-> data.username,
     bio |-> data.bio, description |-> data.description, tags |-> data.tags]

\* redis.sMembers('influencers'): n slugs, in one of two orders (a Redis
\* set has no order of its own).
Ascending(n) == [i \in 1..n |-> i]

Descending(n) == [i \in 1..n |-> n + 1 - i]

SlugLists == UNION {{Ascending(n), Descending(n)} : n \in 0..MaxSlugs}

\* The embedding the provider returns for an influencer's searchable text.
ProviderEmbedding(inf) == KindOf(inf.id).emb

\* The embeddings the provider may return for the message.
\* The last is a call that resolves to undefined.
QueryEmbeddings ==
    { Flat(Nums(<<1, 0>>)),
      Nested(Nums(<<1, 1, 1>>)),
      Flat(<<Num(-1), NonNumeric>>),
      NonNumeric }

\* --------------------------------------------------------- generic helpers

Min(a, b) == IF a <= b THEN a ELSE b

\* slice without its end index.
sliceAll(s, n) == s

\* Array.prototype.slice(0, n)
slice(s, n) == SubSeq(s, 1, Min(n, Len(s)))

\* --------------------------------------------------------------- scores

\* A score is the real number dot / sqrt(nn), nn > 0; an integer n is
\* n / sqrt(1).
Score(dot, nn) == [dot |-> dot, nn |-> nn]

IntScore(n) == Score(n, 1)

Sign(x) == IF x > 0 THEN 1 ELSE IF x < 0 THEN -1 ELSE 0

\* The sign of a - b for two scores.
Compare(a, b) ==
    IF Sign(a.dot) # Sign(b.dot) THEN Sign(Sign(a.dot) - Sign(b.dot))
    ELSE Sign(a.dot) * Sign(a.dot * a.dot * b.nn - b.dot * b.dot * a.nn)

\* Array.prototype.sort((a, b) => b.score - a.score) over entries with a
\* score field: stable.  As an insertion sort: each entry goes after the
\* last one already placed that the comparator does not put behind it.
sortDescending(s) ==
    LET cmp(a, b) == Compare(b.score, a.score)
        Insert(done, x) ==
            LET ps == {j \in 1..Len(done) : cmp(done[j], x) <= 0}
                p  == IF ps = {} THEN 0
                      ELSE CHOOSE j \in ps : \A k \in ps : k <= j
            IN  SubSeq(done, 1, p) \o <<x>> \o SubSeq(done, p + 1, Len(done))
        f[i \in 0..Len(s)] ==
            IF i = 0 THEN <<>> ELSE Insert(f[i - 1], s[i])
    IN  f[Len(s)]

\* -------------------------------------------------------- keyword fallback

\* message.toLowerCase().split(' ')  (line 178)
searchTerms(message) == split(toLowerCase(message.text))

\* The filter's searchableText (lines 181-187).
searchableText(inf) ==
    toLowerCase(join(<<inf.name, inf.username, inf.bio, inf.description>>
                     \o inf.tags))

\* inf.tags.some(tag => tag.toLowerCase().includes(term))
tagMatches(inf, term) ==
    \E t \in 1..Len(inf.tags) : includes(toLowerCase(inf.tags[t]), term)

\* The filter's matchScore (lines 189-197).
matchScore(inf, terms) ==
    LET text == searchableText(inf)
        Points(term) ==
            IF includes(text, term)
            THEN 1 + (IF tagMatches(inf, term) THEN 2 ELSE 0)
            ELSE 0
        f[i \in 0..Len(terms)] ==
            IF i = 0 THEN 0 ELSE f[i - 1] + Points(terms[i])
    IN  f[Len(terms)]

\* The comparator's searchableText (lines 205 and 212): without username.
sortText(inf) ==
    toLowerCase(join(<<inf.name, inf.bio, inf.description>> \o inf.tags))

\* The comparator's aScore / bScore (lines 204-216).
sortScore(inf, terms) ==
    LET text == sortText(inf)
        Points(term) ==
            (IF includes(text, term) THEN 1 ELSE 0)
            + (IF tagMatches(inf, term) THEN 2 ELSE 0)
        f[i \in 0..Len(terms)] ==
            IF i = 0 THEN 0 ELSE f[i - 1] + Points(terms[i])
    IN  f[Len(terms)]

\* message.toLowerCase throws a TypeError unless message is a string.
lexicalThrows(message) == message.kind # "string"

\* The catch block of the vector stage (lines 178-219): filter, then sort.
lexicalSearch(all, message) ==
    LET terms  == searchTerms(message)
        Keep(inf) == matchScore(inf, terms) > 0
        kept   == SelectSeq(all, Keep)
        scored == [i \in 1..Len(kept) |->
                      [inf |-> kept[i],
                       score |-> IntScore(sortScore(kept[i], terms))]]
        sorted == sortDescending(scored)
    IN  [i \in 1..Len(sorted) |-> sorted[i].inf]

\* ----------------------------------------------------------- vector search

\* A number of the similarity computation: NaN, or a score.
NaN == [nan |-> TRUE, score |-> Score(0, 1)]

Real(sc) == [nan |-> FALSE, score |-> sc]

\* Lines 129-138: if (Array.isArray(vector[0])) vector = vector[0].
unwrap(e) ==
    IF Len(e.items) > 0 /\ e.items[1].array THEN e.items[1].items
    ELSE e.items

\* Lines 141-143: both vectors cut to the shorter one's length.
normalize(vec, minLength) == SubSeq(vec, 1, Min(minLength, Len(vec)))

\* calculateCosineSimilarity (lines 19-35).  A sum with a non-numeric
\* element in it is NaN, and NaN === 0 is false.
calculateCosineSimilarity(vecA, vecB) ==
    IF Len(vecA) # Len(vecB) THEN Real(Score(0, 1))
    ELSE
      LET n    == Len(vecA)
          nanA == \E i \in 1..n : ~vecA[i].num
          nanB == \E i \in 1..n : ~vecB[i].num
          dot[i \in 0..n] ==
              IF i = 0 THEN 0 ELSE dot[i - 1] + vecA[i].n * vecB[i].n
          normA[i \in 0..n] ==
              IF i = 0 THEN 0 ELSE normA[i - 1] + vecA[i].n * vecA[i].n
          normB[i \in 0..n] ==
              IF i = 0 THEN 0 ELSE normB[i - 1] + vecB[i].n * vecB[i].n
      IN  IF (~nanA /\ normA[n] = 0) \/ (~nanB /\ normB[n] = 0)
          THEN Real(Score(0, 1))
          ELSE IF nanA \/ nanB THEN NaN
          ELSE Real(Score(dot[n], normA[n] * normB[n]))

\* 0.1 as a score.
Floor == Score(FloorNum, FloorDen * FloorDen)

\* The NaN check without the Math.max.
validSimilarityNaNOnly(similarity) ==
    IF similarity.nan THEN Floor ELSE similarity.score

\* isNaN(similarity) ? 0.1 : Math.max(similarity, 0.1)  (line 154)
validSimilarity(similarity) ==
    IF similarity.nan THEN Floor
    ELSE IF Compare(similarity.score, Floor) >= 0 THEN similarity.score
    ELSE Floor

\* The similarityScore of one candidate (lines 129-154).
similarityScore(queryEmbedding, embedding) ==
    LET queryVector     == unwrap(queryEmbedding)
        embeddingVector == unwrap(embedding)
        minLength       == Min(Len(queryVector), Len(embeddingVector))
    IN  validSimilarity(
            calculateCosineSimilarity(normalize(queryVector, minLength),
                                      normalize(embeddingVector, minLength)))

\* What the map of lines 163-168 returns for an entry it does not keep.
Undefined ==
    [id |-> 0, name |-> <<>>, username |-> <<>>, bio |-> <<>>,
     description |-> <<>>, tags |-> <<>>]

\* Lines 164-167: the entry without its score, if the score is positive.
stripScore(entry) ==
    IF Compare(entry.score, IntScore(0)) > 0 THEN entry.inf ELSE Undefined

\* Lines 127-168: score every (influencer, embedding) pair, sort, strip.
vectorSearch(all, queryEmbedding, influencerEmbeddings) ==
    LET scoredInfluencers ==
            [i \in 1..Len(all) |->
                [inf |-> all[i],
                 score |-> similarityScore(queryEmbedding,
                                           influencerEmbeddings[i])]]
        sorted == sortDescending(scoredInfluencers)
    IN  [i \in 1..Len(sorted) |-> stripScore(sorted[i])]

\* A scoring map that rejects a vector holding a non-numeric element.
scoringThrowsOnNonNumeric(all, queryEmbedding, influencerEmbeddings) ==
    /\ Len(all) > 0
    /\ \/ ~queryEmbedding.array
       \/ \E k \in 1..Len(unwrap(queryEmbedding)) :
              ~unwrap(queryEmbedding)[k].num
       \/ \E i \in 1..Len(all) :
              \/ ~influencerEmbeddings[i].array
              \/ \E k \in 1..Len(unwrap(influencerEmbeddings[i])) :
                     ~unwrap(influencerEmbeddings[i])[k].num

\* A TypeError inside the scoring map (lines 127-157): reading [0] of an
\* embedding that is undefined.  The map runs once per candidate; no other
\* step of it validates what the vectors hold.
scoringThrows(all, queryEmbedding, influencerEmbeddings) ==
    /\ Len(all) > 0
    /\ \/ ~queryEmbedding.array
       \/ \E i \in 1..Len(all) : ~influencerEmbeddings[i].array

\* Values collected in the order the calls return.
settleInArrivalOrder(results, i, value) ==
    LET free == CHOOSE j \in 1..Len(results) :
                    /\ results[j] = Pending
                    /\ \A k \in 1..(j - 1) : results[k] # Pending
    IN  [results EXCEPT ![free] = value]

\* Promise.all keeps each call's value at the index of its call.
settle(results, i, value) == [results EXCEPT ![i] = value]

\* ------------------------------------------------------------ the handler

VARIABLES
    pc,                    \* the await the handler stands at
    message,               \* the request's message field
    slugs,                 \* the slugs still to be read from Redis
    allInfluencers,
    queryEmbedding,
    influencerEmbeddings,  \* the values Promise.all has collected
    relevantInfluencers,
    topInfluencers,
    searchLog,             \* which search logged its outcome
    okCalls,               \* embedding calls that have returned
    threw,                 \* an embedding call has thrown
    status,                \* the response's status, 0 before it is sent
    failedAt               \* the await whose exception reached line 297

vars ==
    <<pc, message, slugs, allInfluencers, queryEmbedding,
      influencerEmbeddings, relevantInfluencers, topInfluencers, searchLog,
      okCalls, threw, status, failedAt>>

Init ==
    /\ pc = "request"
    /\ message = NoMessage
    /\ slugs = <<>>
    /\ allInfluencers = <<>>
    /\ queryEmbedding = Pending
    /\ influencerEmbeddings = <<>>
    /\ relevantInfluencers = <<>>
    /\ topInfluencers = <<>>
    /\ searchLog = "none"
    /\ okCalls = 0
    /\ threw = FALSE
    /\ status = 0
    /\ failedAt = "none"

\* Lines 297-302: the outer catch answers 500.
ServerError(where) ==
    /\ status' = 500
    /\ failedAt' = where
    /\ pc' = "done"

\* A searchError catch that gives up the candidates.
PassthroughEmpty ==
    /\ relevantInfluencers' = <<>>
    /\ topInfluencers' = <<>>
    /\ searchLog' = "passthrough"
    /\ pc' = "completion"

\* Lines 224-231: the searchError catch, then the cut to the first five.
Passthrough ==
    /\ relevantInfluencers' = allInfluencers
    /\ topInfluencers' = slice(allInfluencers, K)
    /\ searchLog' = "passthrough"
    /\ pc' = "completion"

\* Lines 39-46.
Request(m) ==
    /\ pc = "request"
    /\ message' = m
    /\ IF m.kind = "absent"
       THEN status' = 400 /\ pc' = "done"
       ELSE status' = status /\ pc' = "sMembers"
    /\ UNCHANGED <<slugs, allInfluencers, queryEmbedding,
                   influencerEmbeddings, relevantInfluencers, topInfluencers,
                   searchLog, okCalls, threw, failedAt>>

\* Line 50.
SMembers(list) ==
    /\ pc = "sMembers"
    /\ slugs' = list
    /\ pc' = IF list = <<>> THEN "getCollection" ELSE "hGetAll"
    /\ UNCHANGED <<message, allInfluencers, queryEmbedding,
                   influencerEmbeddings, relevantInfluencers, topInfluencers,
                   searchLog, okCalls, threw, status, failedAt>>

\* Lines 54-70: one turn of the loop.
HGetAll ==
    /\ pc = "hGetAll"
    /\ LET slug == Head(slugs)
           data == hGetAll(slug)
       IN  allInfluencers' =
               IF data.name # <<>>
               THEN Append(allInfluencers, Influencer(slug, data))
               ELSE allInfluencers
    /\ slugs' = Tail(slugs)
    /\ pc' = IF Tail(slugs) = <<>> THEN "getCollection" ELSE "hGetAll"
    /\ UNCHANGED <<message, queryEmbedding, influencerEmbeddings,
                   relevantInfluencers, topInfluencers, searchLog, okCalls,
                   threw, status, failedAt>>

\* Lines 49-55: getRedisClient, sMembers or hGetAll rejects; no try but the
\* outer one is around them.
RedisThrows ==
    /\ pc \in {"sMembers", "hGetAll"}
    /\ ServerError("redis")
    /\ UNCHANGED <<message, slugs, allInfluencers, queryEmbedding,
                   influencerEmbeddings, relevantInfluencers, topInfluencers,
                   searchLog, okCalls, threw>>

\* Lines 80-83.
GetCollection ==
    /\ pc = "getCollection"
    /\ pc' = "embedQuery"
    /\ UNCHANGED <<message, slugs, allInfluencers, queryEmbedding,
                   influencerEmbeddings, relevantInfluencers, topInfluencers,
                   searchLog, okCalls, threw, status, failedAt>>

\* Line 84.
GetCollectionThrows ==
    /\ pc = "getCollection"
    /\ pc' = "createCollection"
    /\ UNCHANGED <<message, slugs, allInfluencers, queryEmbedding,
                   influencerEmbeddings, relevantInfluencers, topInfluencers,
                   searchLog, okCalls, threw, status, failedAt>>

\* Lines 86-90.
CreateCollection ==
    /\ pc = "createCollection"
    /\ pc' = "embedQuery"
    /\ UNCHANGED <<message, slugs, allInfluencers, queryEmbedding,
                   influencerEmbeddings, relevantInfluencers, topInfluencers,
                   searchLog, okCalls, threw, status, failedAt>>

\* Lines 86 and 224-231: createCollection rejects outside the inner try.
CreateCollectionThrows ==
    /\ pc = "createCollection"
    /\ Passthrough
    /\ UNCHANGED <<message, slugs, allInfluencers, queryEmbedding,
                   influencerEmbeddings, okCalls, threw, status, failedAt>>

\* Lines 98-118: the query's embedding returns and the map issues one call
\* per candidate.
EmbedQuery(q) ==
    /\ pc = "embedQuery"
    /\ queryEmbedding' = q
    /\ influencerEmbeddings' = [i \in 1..Len(allInfluencers) |-> Pending]
    /\ okCalls' = okCalls + 1
    /\ pc' = "embedInfluencers"
    /\ UNCHANGED <<message, slugs, allInfluencers, relevantInfluencers,
                   topInfluencers, searchLog, threw, status, failedAt>>

\* Lines 98 and 174.
EmbedQueryThrows ==
    /\ pc = "embedQuery"
    /\ threw' = TRUE
    /\ pc' = "vectorCatch"
    /\ UNCHANGED <<message, slugs, allInfluencers, queryEmbedding,
                   influencerEmbeddings, relevantInfluencers, topInfluencers,
                   searchLog, okCalls, status, failedAt>>

\* Lines 113-116: one candidate's call returns, in any order.
EmbedInfluencer(i) ==
    /\ pc = "embedInfluencers"
    /\ influencerEmbeddings[i] = Pending
    /\ influencerEmbeddings' =
           settle(influencerEmbeddings, i,
                  ProviderEmbedding(allInfluencers[i]))
    /\ okCalls' = okCalls + 1
    /\ UNCHANGED <<pc, message, slugs, allInfluencers, queryEmbedding,
                   relevantInfluencers, topInfluencers, searchLog, threw,
                   status, failedAt>>

\* Lines 103, 113 and 174: a call that has not returned throws; Promise.all
\* rejects, whichever call it was, and what it had collected is dropped.
EmbedInfluencerThrows ==
    /\ pc = "embedInfluencers"
    /\ \E i \in 1..Len(allInfluencers) : influencerEmbeddings[i] = Pending
    /\ threw' = TRUE
    /\ queryEmbedding' = Pending
    /\ influencerEmbeddings' = <<>>
    /\ pc' = "vectorCatch"
    /\ UNCHANGED <<message, slugs, allInfluencers, relevantInfluencers,
                   topInfluencers, searchLog, okCalls, status, failedAt>>

\* Lines 127-172 and 230-231: Promise.all has resolved.
RankVector ==
    /\ pc = "embedInfluencers"
    /\ \A i \in 1..Len(allInfluencers) : influencerEmbeddings[i] # Pending
    /\ IF scoringThrows(allInfluencers, queryEmbedding, influencerEmbeddings)
       THEN /\ pc' = "vectorCatch"
            /\ UNCHANGED <<relevantInfluencers, topInfluencers, searchLog>>
       ELSE /\ relevantInfluencers' =
                   vectorSearch(allInfluencers, queryEmbedding,
                                influencerEmbeddings)
            /\ topInfluencers' = slice(relevantInfluencers', K)
            /\ searchLog' = "vector"
            /\ pc' = "completion"
    /\ UNCHANGED <<message, slugs, allInfluencers, queryEmbedding,
                   influencerEmbeddings, okCalls, threw, status, failedAt>>

\* A vectorError catch that only logs.
VectorCatchLogsOnly ==
    /\ pc = "vectorCatch"
    /\ pc' = "completion"
    /\ UNCHANGED <<message, slugs, allInfluencers, queryEmbedding,
                   influencerEmbeddings, relevantInfluencers, topInfluencers,
                   searchLog, okCalls, threw, status, failedAt>>

\* Lines 175-231: the vectorError catch runs the keyword search and the cut
\* to the first five.  An exception of the keyword search itself leaves the
\* inner try and is caught at line 224.
VectorCatch ==
    /\ pc = "vectorCatch"
    /\ IF lexicalThrows(message) THEN Passthrough
       ELSE /\ relevantInfluencers' = lexicalSearch(allInfluencers, message)
            /\ topInfluencers' = slice(relevantInfluencers', K)
            /\ searchLog' = "lexical"
            /\ pc' = "completion"
    /\ UNCHANGED <<message, slugs, allInfluencers, queryEmbedding,
                   influencerEmbeddings, okCalls, threw, status, failedAt>>

\* Lines 286-295.
Completion ==
    /\ pc = "completion"
    /\ status' = 200
    /\ pc' = "done"
    /\ UNCHANGED <<message, slugs, allInfluencers, queryEmbedding,
                   influencerEmbeddings, relevantInfluencers, topInfluencers,
                   searchLog, okCalls, threw, failedAt>>

\* Lines 286 and 297-302.
CompletionThrows ==
    /\ pc = "completion"
    /\ ServerError("completion")
    /\ UNCHANGED <<message, slugs, allInfluencers, queryEmbedding,
                   influencerEmbeddings, relevantInfluencers, topInfluencers,
                   searchLog, okCalls, threw>>

Next ==
    \/ \E m \in Messages : Request(m)
    \/ \E list \in SlugLists : SMembers(list)
    \/ HGetAll
    \/ RedisThrows
    \/ GetCollection
    \/ GetCollectionThrows
    \/ CreateCollection
    \/ CreateCollectionThrows
    \/ \E q \in QueryEmbeddings : EmbedQuery(q)
    \/ EmbedQueryThrows
    \/ \E i \in 1..Len(allInfluencers) : EmbedInfluencer(i)
    \/ EmbedInfluencerThrows
    \/ RankVector
    \/ VectorCatch
    \/ Completion
    \/ CompletionThrows

Spec == Init /\ [][Next]_vars

\* ------------------------------------------------------------- the claims

\* The retrieval has produced its result.
Retrieved == searchLog # "none"

\* Every call made to the embedding provider has thrown.
EveryCallThrew == threw /\ okCalls = 0

\* Neither getCollection nor createCollection gave a collection: the only
\* way to a result with no embedding call made.
CollectionUnavailable == Retrieved /\ okCalls = 0 /\ ~threw

\* The scoring map threw after every call had returned.
ScoringThrew ==
    /\ ~threw
    /\ okCalls > 0
    /\ pc # "embedInfluencers"
    /\ scoringThrows(allInfluencers, queryEmbedding, influencerEmbeddings)

\* The vector stage has ended in its catch.
VectorStageFailed == threw \/ ScoringThrew

\* Where a candidate stands in the candidate set.
Position(inf) == CHOOSE i \in 1..Len(allInfluencers) : allInfluencers[i] = inf

\* The candidate's score in the ranking of the vector search.
VectorScore(inf) ==
    similarityScore(queryEmbedding, influencerEmbeddings[Position(inf)])

\* The candidate's similarity before the NaN check and the floor.
RawSimilarity(inf) ==
    LET queryVector     == unwrap(queryEmbedding)
        embeddingVector == unwrap(influencerEmbeddings[Position(inf)])
        minLength       == Min(Len(queryVector), Len(embeddingVector))
    IN  calculateCosineSimilarity(normalize(queryVector, minLength),
                                  normalize(embeddingVector, minLength))

\* The embedding holds a non-numeric element once unwrapped.
HasNonNumeric(e) ==
    e.array /\ \E k \in 1..Len(unwrap(e)) : ~unwrap(e)[k].num

\* The message cut at whitespace: the runs of non-space characters.
WhitespaceTerms(m) ==
    LET NonEmpty(t) == t # <<>>
    IN  SelectSeq(split(toLowerCase(m.text)), NonEmpty)

\* C1: when every embedding call throws, the exception does not reach the
\* outer catch, and the result, before and after the cut to five, is the
\* keyword search's on the same candidates and message.
C1_FallbackIsLexical ==
    EveryCallThrew =>
        /\ failedAt \in {"none", "completion"}
        /\ pc \in {"vectorCatch", "completion", "done"}
        /\ (pc # "vectorCatch" /\ ~lexicalThrows(message)) =>
              /\ searchLog = "lexical"
              /\ relevantInfluencers = lexicalSearch(allInfluencers, message)
              /\ topInfluencers =
                     SubSeq(lexicalSearch(allInfluencers, message), 1,
                            Min(K, Len(lexicalSearch(allInfluencers, message))))

\* C1's case: the query's embedding threw, the keyword search ranked more
\* than five candidates and changed their order.
C1_Witness ==
    /\ EveryCallThrew
    /\ searchLog = "lexical"
    /\ Len(relevantInfluencers) > K
    /\ relevantInfluencers # allInfluencers
    /\ Len(topInfluencers) = K

\* C2: the keyword search's result is in descending order of the one score
\* that decides inclusion (matchScore), equal scores in candidate-set order.
C2_OrderedByMatchScore ==
    searchLog = "lexical" =>
        \A i, j \in 1..Len(relevantInfluencers) :
            i < j =>
                LET si == matchScore(relevantInfluencers[i],
                                     searchTerms(message))
                    sj == matchScore(relevantInfluencers[j],
                                     searchTerms(message))
                IN  \/ si > sj
                    \/ /\ si = sj
                       /\ Position(relevantInfluencers[i])
                              < Position(relevantInfluencers[j])

\* C3: with the message cut at whitespace, a candidate is in the keyword
\* search's result exactly if its searchable text holds one of the terms.
C3_ZeroScoreExcluded ==
    searchLog = "lexical" =>
        \A i \in 1..Len(allInfluencers) :
            (\E j \in 1..Len(relevantInfluencers) :
                 relevantInfluencers[j] = allInfluencers[i])
            <=>
            (\E t \in 1..Len(WhitespaceTerms(message)) :
                 includes(searchableText(allInfluencers[i]),
                          WhitespaceTerms(message)[t]))

\* C4: the vector search keeps every candidate exactly once, each with a
\* score of at least 0.1 (exactly 0.1 for a NaN, a zero or a lower
\* similarity), in descending score order with equal scores in candidate-set
\* order, and the result is the first five.
C4_VectorRanking ==
    searchLog = "vector" =>
        /\ Len(relevantInfluencers) = Len(allInfluencers)
        /\ \A i \in 1..Len(allInfluencers) :
               Cardinality({j \in 1..Len(relevantInfluencers) :
                               relevantInfluencers[j] = allInfluencers[i]}) = 1
        /\ \A j \in 1..Len(relevantInfluencers) :
               /\ relevantInfluencers[j] # Undefined
               /\ Compare(VectorScore(relevantInfluencers[j]), Floor) >= 0
               /\ (\/ RawSimilarity(relevantInfluencers[j]).nan
                   \/ Compare(RawSimilarity(relevantInfluencers[j]).score,
                              Floor) < 0)
                  => VectorScore(relevantInfluencers[j]) = Floor
        /\ \A i, j \in 1..Len(relevantInfluencers) :
               i < j =>
                   LET c == Compare(VectorScore(relevantInfluencers[i]),
                                    VectorScore(relevantInfluencers[j]))
                   IN  \/ c > 0
                       \/ /\ c = 0
                          /\ Position(relevantInfluencers[i])
                                 < Position(relevantInfluencers[j])
        /\ topInfluencers =
               SubSeq(relevantInfluencers, 1,
                      Min(K, Len(relevantInfluencers)))

\* C4's case: a ranking of more than five candidates that moved some, with a
\* NaN similarity and a tie among them.
C4_Witness ==
    /\ searchLog = "vector"
    /\ Len(allInfluencers) > K
    /\ relevantInfluencers # allInfluencers
    /\ \E j \in 1..Len(relevantInfluencers) :
           RawSimilarity(relevantInfluencers[j]).nan
    /\ \E i, j \in 1..Len(relevantInfluencers) :
           /\ i < j
           /\ Compare(VectorScore(relevantInfluencers[i]),
                      VectorScore(relevantInfluencers[j])) = 0
           /\ Compare(VectorScore(relevantInfluencers[i]), Floor) > 0

\* C5: with the collection unavailable, the result is the keyword search's.
C5_UnavailableIsLexical ==
    (CollectionUnavailable /\ ~lexicalThrows(message)) =>
        relevantInfluencers = lexicalSearch(allInfluencers, message)

\* C6 as claimed: an embedding with a non-numeric element fails the vector
\* stage, so no vector ranking of the candidates comes of it.
C6_NonNumericFailsStage ==
    (searchLog = "vector" /\ Len(allInfluencers) > 0) =>
        /\ ~HasNonNumeric(queryEmbedding)
        /\ \A i \in 1..Len(allInfluencers) :
               ~HasNonNumeric(influencerEmbeddings[i])

\* C6 as amended: when every embedding call has returned an array, the
\* vector ranking is the result whatever the arrays hold, and a candidate
\* whose similarity is NaN is ranked with the score 0.1.
C6_NonNumericIsFloored ==
    (/\ Retrieved
     /\ ~threw
     /\ okCalls = Len(allInfluencers) + 1
     /\ queryEmbedding.array
     /\ \A i \in 1..Len(allInfluencers) : influencerEmbeddings[i].array) =>
        /\ searchLog = "vector"
        /\ Len(relevantInfluencers) = Len(allInfluencers)
        /\ \A j \in 1..Len(relevantInfluencers) :
               RawSimilarity(relevantInfluencers[j]).nan =>
                   VectorScore(relevantInfluencers[j]) = Floor

\* C6's case: a vector ranking over embeddings with a non-numeric element
\* both in the query's and in a candidate's.
C6_Witness ==
    /\ searchLog = "vector"
    /\ HasNonNumeric(queryEmbedding)
    /\ \E i \in 1..Len(allInfluencers) :
           HasNonNumeric(influencerEmbeddings[i])

\* C7: a request with a message (a string) always reaches the completion
\* call, and the 500 response comes only of that call failing.
C7_OnlyCompletionIsTerminal ==
    (pc = "done" /\ message.kind = "string") =>
        /\ Retrieved
        /\ status = 500 => failedAt = "completion"

\* C8: the result's length is min(5, m), m the candidates the path keeps:
\* all of them on the vector and passthrough paths, those with a positive
\* matchScore on the keyword path.
C8_ResultLength ==
    Retrieved =>
        LET m == IF searchLog = "lexical"
                 THEN Cardinality(
                          {i \in 1..Len(allInfluencers) :
                              matchScore(allInfluencers[i],
                                         searchTerms(message)) > 0})
                 ELSE Len(allInfluencers)
        IN  /\ Len(topInfluencers) = Min(K, m)
            /\ Len(topInfluencers) <= K
            /\ allInfluencers = <<>> => topInfluencers = <<>>

\* C8's case: the keyword path keeps some but not all of more than five
\* candidates.
C8_Witness ==
    /\ searchLog = "lexical"
    /\ Len(allInfluencers) > K
    /\ Len(relevantInfluencers) < Len(allInfluencers)
    /\ Len(topInfluencers) > 0

\* C9: when the vector stage and the keyword search both throw, the result
\* is the candidate set as loaded, cut to five, and the request goes on to
\* the completion call.
C9_BothFailPassthrough ==
    (VectorStageFailed /\ lexicalThrows(message) /\ pc # "vectorCatch") =>
        /\ pc \in {"completion", "done"}
        /\ searchLog = "passthrough"
        /\ relevantInfluencers = allInfluencers
        /\ topInfluencers =
               SubSeq(allInfluencers, 1, Min(K, Len(allInfluencers)))
        /\ failedAt \in {"none", "completion"}

\* C9's case: both have thrown with more than five candidates loaded.
C9_Witness ==
    /\ threw
    /\ message = NumberMessage
    /\ searchLog = "passthrough"
    /\ Len(allInfluencers) > K
    /\ Len(topInfluencers) = K
    /\ status = 200

\* C10: a vector ranking exists only once the query's call and all N
\* candidate calls have returned; it pairs each candidate with its own
\* embedding whatever the order of the returns; and once a call has thrown
\* the stage has failed: no vector ranking, but the fallback's result.
C10_FanOut ==
    /\ searchLog = "vector" =>
           /\ ~threw
           /\ okCalls = Len(allInfluencers) + 1
           /\ influencerEmbeddings =
                  [i \in 1..Len(allInfluencers) |->
                      ProviderEmbedding(allInfluencers[i])]
           /\ relevantInfluencers =
                  vectorSearch(allInfluencers, queryEmbedding,
                               [i \in 1..Len(allInfluencers) |->
                                   ProviderEmbedding(allInfluencers[i])])
    /\ threw =>
           /\ searchLog # "vector"
           /\ pc \in {"vectorCatch", "completion", "done"}
           /\ failedAt \in {"none", "completion"}
           /\ pc # "vectorCatch" =>
                  searchLog = IF lexicalThrows(message)
                              THEN "passthrough" ELSE "lexical"

\* C10's case: a ranking over several candidates whose embeddings differ.
C10_Witness ==
    /\ searchLog = "vector"
    /\ okCalls > K
    /\ \E i, j \in 1..Len(allInfluencers) :
           influencerEmbeddings[i] # influencerEmbeddings[j]

=============================================================================
